---- MODULE Spec2Model ----
(***************************************************************************)
(* CombinatorialKnowledge (src/gi/knowledge/combinatorial.py): a learner   *)
(* that keeps an insertion-ordered map of hypotheses                       *)
(*     key = (fn_index, lhs_subset, (rhs_type, rhs_val))                   *)
(* with a failure counter and an optional child learner per key.           *)
(*                                                                         *)
(* Python values are modelled as follows.                                  *)
(*   - a row is a sequence of integers; Python's None is the integer None  *)
(*     below, which lies outside every value domain used;                  *)
(*   - column indices are 0-based as in the source (At does the indexing); *)
(*   - a dict is the sequence of its entries in insertion order;           *)
(*   - an optional object (child, parent_key) is <<>> for None and <<x>>   *)
(*     (child) or the key itself (parent_key) when present;                *)
(*   - a call's outcome is a record that says whether it raised.           *)
(***************************************************************************)
EXTENDS Integers, Sequences, FiniteSets, TLC

\* ------------------------------------------------------------------ bounds
\* The free-input setups use tolerance 0..MaxTol.
MaxTol == 1
\* At most MaxTrain train calls are made on one learner.
MaxTrain == 4

\* ------------------------------------------------------- python primitives
\* Python's None (row placeholder, absent rhs, "no prediction").
None == -1000000

\* row[i] with Python's indexing: 0-based, negative i counts from the end.
At(row, i) == IF i >= 0 THEN row[i + 1] ELSE row[Len(row) + i + 1]

RECURSIVE SumSeq(_)
\* sum(lhs) over a tuple of integers.
SumSeq(s) == IF s = <<>> THEN 0 ELSE s[1] + SumSeq(Tail(s))

\* Outcomes of a relation function call.
Raised == [tag |-> "exc", b |-> FALSE, v |-> None]
RetBool(x) == [tag |-> "bool", b |-> x, v |-> None]
RetVal(x) == [tag |-> "val", b |-> FALSE, v |-> x]

\* equals_sum(lhs, rhs=None): sum(lhs) raises TypeError on a None element.
equals_sum(lhs, rhs) ==
    IF \E i \in 1..Len(lhs) : lhs[i] = None THEN Raised
    ELSE IF rhs = None THEN RetVal(SumSeq(lhs))
    ELSE RetBool(SumSeq(lhs) = rhs)

\* equals_constant(lhs, rhs=None): rhs if rhs is None else lhs[0] == rhs.
equals_constant(lhs, rhs) ==
    IF rhs = None THEN RetVal(None)
    ELSE IF lhs = <<>> THEN Raised
    ELSE RetBool(lhs[1] = rhs)

\* max(lhs), min(lhs), sorted(lhs) compare the elements: TypeError when two
\* or more are compared and one is None, ValueError (StatisticsError for the
\* median) on an empty tuple. A single element is not compared with anything.
Incomparable(lhs) ==
    \/ lhs = <<>>
    \/ Len(lhs) >= 2 /\ \E i \in 1..Len(lhs) : lhs[i] = None

Elems(s) == {s[i] : i \in 1..Len(s)}
Max(s) == CHOOSE v \in Elems(s) : \A w \in Elems(s) : w <= v
Min(s) == CHOOSE v \in Elems(s) : \A w \in Elems(s) : v <= w

\* sorted(s)[k - 1]: the k-th smallest element, k = 1..Len(s).
Kth(s, k) ==
    CHOOSE v \in Elems(s) :
        /\ Cardinality({i \in 1..Len(s) : s[i] < v}) < k
        /\ k <= Cardinality({i \in 1..Len(s) : s[i] <= v})

\* greater_than(lhs, rhs=None): m = max(lhs); m if rhs is None else m > rhs.
\* "None > rhs" raises TypeError.
greater_than(lhs, rhs) ==
    IF Incomparable(lhs) THEN Raised
    ELSE IF rhs = None THEN RetVal(Max(lhs))
    ELSE IF Max(lhs) = None THEN Raised
    ELSE RetBool(Max(lhs) > rhs)

\* less_than(lhs, rhs=None): mn = min(lhs); mn if rhs is None else mn < rhs.
less_than(lhs, rhs) ==
    IF Incomparable(lhs) THEN Raised
    ELSE IF rhs = None THEN RetVal(Min(lhs))
    ELSE IF Min(lhs) = None THEN Raised
    ELSE RetBool(Min(lhs) < rhs)

\* The float s/2 as a model value: the integer when s is even (Python's
\* 3.0 == 3), and for odd s a value HalfBase + s apart from every integer
\* the rows and constants use.
HalfBase == 500000
Halved(s) == IF s % 2 = 0 THEN s \div 2 ELSE HalfBase + s

\* statistics.median(lhs): the middle element of the sorted data, for an
\* even length the mean of the two middle ones.
median(lhs) ==
    LET n == Len(lhs)
        i == n \div 2
    IN  IF n % 2 = 1 THEN Kth(lhs, i + 1)
        ELSE Halved(Kth(lhs, i) + Kth(lhs, i + 1))

\* equals_median(lhs, rhs=None): med if rhs is None else med == rhs.
equals_median(lhs, rhs) ==
    IF Incomparable(lhs) THEN Raised
    ELSE IF rhs = None THEN RetVal(median(lhs))
    ELSE RetBool(median(lhs) = rhs)

\* fn(lhs_values, rhs); fn(lhs_values) is the same call with rhs = None.
Call(fn, lhs, rhs) ==
    CASE fn = "equals_sum" -> equals_sum(lhs, rhs)
      [] fn = "equals_constant" -> equals_constant(lhs, rhs)
      [] fn = "greater_than" -> greater_than(lhs, rhs)
      [] fn = "less_than" -> less_than(lhs, rhs)
      [] fn = "equals_median" -> equals_median(lhs, rhs)

\* A mutant of Truthy: "except Exception: passed = True".
TruthyOnError(res) ==
    CASE res.tag = "exc" -> TRUE
      [] res.tag = "bool" -> res.b
      [] OTHER -> res.v # None /\ res.v # 0

\* "passed = fn(...)" inside try/except, then "if passed": Python truthiness
\* of the outcome, an exception counting as False.
Truthy(res) ==
    CASE res.tag = "exc" -> FALSE
      [] res.tag = "bool" -> res.b
      [] OTHER -> res.v # None /\ res.v # 0

\* "yhat = fn(lhs_values)" inside try/except, then "if yhat is not None:
\* out.append(yhat)": the values appended (a Python bool is the int 1 or 0).
Yhat(res) ==
    CASE res.tag = "exc" -> <<>>
      [] res.tag = "bool" -> <<IF res.b THEN 1 ELSE 0>>
      [] OTHER -> IF res.v = None THEN <<>> ELSE <<res.v>>

\* ------------------------------------------------------------ the learner
RECURSIVE ConcatRange(_, _, _)
\* ss[lo] \o ... \o ss[hi], split in halves to keep the evaluation shallow.
ConcatRange(ss, lo, hi) ==
    IF lo > hi THEN <<>>
    ELSE IF lo = hi THEN ss[lo]
    ELSE ConcatRange(ss, lo, (lo + hi) \div 2)
         \o ConcatRange(ss, (lo + hi) \div 2 + 1, hi)

\* The concatenation of a sequence of sequences (nested for-loops, in order).
Concat(ss) == ConcatRange(ss, 1, Len(ss))

RECURSIVE Comb(_, _, _)
\* itertools.combinations(range(lo, n), k): ascending tuples, lexicographic.
Comb(lo, n, k) ==
    IF k = 0 THEN << <<>> >>
    ELSE IF lo >= n THEN <<>>
    ELSE LET with == Comb(lo + 1, n, k - 1)
         IN  [j \in 1..Len(with) |-> <<lo>> \o with[j]] \o Comb(lo + 1, n, k)

\* combinations(indices, subset_size) with indices = range(n).
combinations(n, k) == Comb(0, n, k)

\* CombinatorialKnowledge.__init__: a learner with an empty hypothesis map.
NewLearner(functions, constants, min_lhs, max_lhs, tolerance, max_depth, parent_key) ==
    [functions |-> functions, constants |-> constants, min_lhs |-> min_lhs,
     max_lhs |-> max_lhs, tolerance |-> tolerance, max_depth |-> max_depth,
     parent_key |-> parent_key, hypotheses |-> <<>>]

\* The feature RHS candidates: every column i with i != target_index.
FeatureRhs(row, target_index) ==
    LET cols == [i \in 1..Len(row) |-> i - 1]
        keep(i) == i # target_index
    IN  [j \in 1..Len(SelectSeq(cols, keep)) |->
            <<"feature", SelectSeq(cols, keep)[j]>>]

\* _rhs_candidates: target, then the features, then the constants.
rhs_candidates(self, row, target_index) ==
    << <<"target", None>> >>
    \o FeatureRhs(row, target_index)
    \o [j \in 1..Len(self.constants) |-> <<"constant", self.constants[j]>>]

\* A mutant of LhsSizes: range(min_lhs, max_lhs), the upper bound excluded.
LhsSizesExclusive(self) ==
    [s \in 1..(self.max_lhs - self.min_lhs) |-> self.min_lhs + s - 1]

\* _enumerate_hypotheses: range(self.min_lhs, self.max_lhs + 1).
LhsSizes(self) ==
    [s \in 1..(self.max_lhs - self.min_lhs + 1) |-> self.min_lhs + s - 1]

\* _enumerate_hypotheses: the keys in the order the generator yields them.
enumerate_hypotheses(self, row, target_index) ==
    LET n == Len(row)
        rhs == rhs_candidates(self, row, target_index)
        perFn(lhs_subset, f) ==
            [r \in 1..Len(rhs) |-> <<f - 1, lhs_subset, rhs[r]>>]
        perSubset(lhs_subset) ==
            Concat([f \in 1..Len(self.functions) |-> perFn(lhs_subset, f)])
        perSize(k) ==
            LET cs == combinations(n, k)
            IN  Concat([c \in 1..Len(cs) |-> perSubset(cs[c])])
        sizes == LhsSizes(self)
    IN  Concat([s \in 1..Len(sizes) |-> perSize(sizes[s])])

\* lhs_values = tuple(row[i] for i in lhs_subset)
LhsValues(row, lhs_subset) ==
    [j \in 1..Len(lhs_subset) |-> At(row, lhs_subset[j])]

\* The hypothesis map as a sequence of entries: Keys, lookup, membership.
KeysOf(hyps) == {hyps[j].key : j \in 1..Len(hyps)}
Get(hyps, key) == hyps[CHOOSE j \in 1..Len(hyps) : hyps[j].key = key]

\* on, the evaluation of one enumerated key on the training row: the target
\* value row[target_index], the feature row[rhs_val] or the constant.
PassedOn(self, row, target_index, key) ==
    LET fn == self.functions[key[1] + 1]
        lhs_values == LhsValues(row, key[2])
        rhs == CASE key[3][1] = "target" -> At(row, target_index)
                 [] key[3][1] = "feature" -> At(row, key[3][2])
                 [] OTHER -> key[3][2]
    IN  Truthy(Call(fn, lhs_values, rhs))

\* A mutant of Renewed: a success resets the failure counter.
RenewedReset(hyps, key) ==
    IF key \in KeysOf(hyps) THEN [Get(hyps, key) EXCEPT !.fail = 0]
    ELSE [key |-> key, fail |-> 0, child |-> <<>>]

\* on: the state of a key that passed: the tracked one unchanged, or a new one.
Renewed(hyps, key) ==
    IF key \in KeysOf(hyps) THEN Get(hyps, key)
    ELSE [key |-> key, fail |-> 0, child |-> <<>>]

\* A mutant of Failed: the failing entry is rebuilt without its child.
FailedLosesChild(h) == [h EXCEPT !.fail = @ + 1, !.child = <<>>]

\* on: an old hypothesis that was not renewed: h["fail"] += 1.
Failed(h) == [h EXCEPT !.fail = @ + 1]

\* A mutant of Kept: h["fail"] <= self.tolerance + 1.
KeptLoose(self, h) == h.fail <= self.tolerance + 1

\* A mutant of Kept: h["fail"] < self.tolerance.
KeptStrict(self, h) == h.fail < self.tolerance

\* on: a failed hypothesis is kept while h["fail"] <= self.tolerance.
Kept(self, h) == h.fail <= self.tolerance

\* on, up to "self.hypotheses = new_hypotheses": the new map, the passing
\* keys in enumeration order and then the old ones that failed and are kept.
NewHypotheses(self, row, target_index) ==
    LET cands == enumerate_hypotheses(self, row, target_index)
        pass(k) == PassedOn(self, row, target_index, k)
        passing == SelectSeq(cands, pass)
        renewed == [j \in 1..Len(passing) |-> Renewed(self.hypotheses, passing[j])]
        old(h) == h.key \notin KeysOf(renewed)
        failing == SelectSeq(self.hypotheses, old)
        failed == [j \in 1..Len(failing) |-> Failed(failing[j])]
        keep(h) == Kept(self, h)
    IN  renewed \o SelectSeq(failed, keep)

\* "def on(self, ctx, gi)": the positional arguments on requires after self.
OnParams == 2
\* "h["child"].on(Context(row, target_index))": the arguments that call passes.
ChildCallArgs == 1

\* _update_children, the re-evaluation of a retained feature or constant key
\* on the row (rhs_value = row[rhs_val] for a feature, rhs_val otherwise).
PassedAgain(self, row, key) ==
    LET fn == self.functions[key[1] + 1]
        lhs_values == LhsValues(row, key[2])
        rhs_value == IF key[3][1] = "feature" THEN At(row, key[3][2])
                     ELSE key[3][2]
    IN  Truthy(Call(fn, lhs_values, rhs_value))

\* A mutant of Nests: target rules are not skipped.
NestsTargetToo(self, row, key) ==
    /\ key # self.parent_key
    /\ PassedAgain(self, row, key)

\* A mutant of Nests: the learner's own parent_key is not skipped.
NestsOwnKeyToo(self, row, key) ==
    /\ key[3][1] # "target"
    /\ PassedAgain(self, row, key)

\* _update_children: the keys the loop does not skip: not a target rule, not
\* the learner's own parent_key, and passing on the row.
Nests(self, row, key) ==
    /\ key[3][1] # "target"
    /\ key # self.parent_key
    /\ PassedAgain(self, row, key)

\* _update_children: "max_depth <= 0: return", no children allowed.
NoChildrenAllowed(self) == self.max_depth <= 0

\* A mutant of NewChild: max_depth=self.max_depth, not decremented.
NewChildSameDepth(self, key) ==
    NewLearner(self.functions, self.constants, self.min_lhs, self.max_lhs,
               self.tolerance, self.max_depth, key)

\* _update_children: the child created when h["child"] is None.
NewChild(self, key) ==
    NewLearner(self.functions, self.constants, self.min_lhs, self.max_lhs,
               self.tolerance, self.max_depth - 1, key)

RECURSIVE on(_, _, _)
RECURSIVE update_children_from(_, _, _, _)

\* h["child"].on(Context(row, target_index)): Python binds the arguments
\* before the body runs and raises TypeError when a required one is missing;
\* the child is then left as it was.
child_on(child, row, target_index) ==
    IF ChildCallArgs < OnParams THEN [self |-> child, raised |-> TRUE]
    ELSE on(child, row, target_index)

\* _update_children, the loop from the i-th entry of self.hypotheses on: it
\* goes to the next entry j that is not skipped, creates its child if it has
\* none and trains it. An exception of the child's on leaves the loop: the
\* entries after j are not visited, the child created for entry j stays.
update_children_from(self, row, target_index, i) ==
    LET todo == {j \in i..Len(self.hypotheses) : Nests(self, row, self.hypotheses[j].key)}
    IN  IF todo = {} THEN [self |-> self, raised |-> FALSE]
        ELSE LET j == CHOOSE m \in todo : \A n \in todo : m <= n
                 h == self.hypotheses[j]
                 child == IF h.child = <<>> THEN NewChild(self, h.key)
                          ELSE h.child[1]
                 r == child_on(child, row, target_index)
                 next == [self EXCEPT !.hypotheses[j].child = <<r.self>>]
             IN  IF r.raised THEN [self |-> next, raised |-> TRUE]
                 ELSE update_children_from(next, row, target_index, j + 1)

\* _update_children(row, target_index).
update_children(self, row, target_index) ==
    IF NoChildrenAllowed(self) THEN [self |-> self, raised |-> FALSE]
    ELSE update_children_from(self, row, target_index, 1)

\* on(Context(row, target_index), gi): the learner afterwards, and whether
\* the call raised.
on(self, row, target_index) ==
    update_children(
        [self EXCEPT !.hypotheses = NewHypotheses(self, row, target_index)],
        row, target_index)

RECURSIVE predict(_, _)

\* predict, the contribution of one entry: the value of a target rule, the
\* child's predictions for a feature or constant rule that holds on the row.
predict_entry(self, row, h) ==
    LET fn == self.functions[h.key[1] + 1]
        lhs_values == LhsValues(row, h.key[2])
        rhs_value == IF h.key[3][1] = "feature" THEN At(row, h.key[3][2])
                     ELSE h.key[3][2]
    IN  IF h.key[3][1] = "target" THEN Yhat(Call(fn, lhs_values, None))
        ELSE IF Truthy(Call(fn, lhs_values, rhs_value)) /\ h.child # <<>>
             THEN predict(h.child[1], row)
             ELSE <<>>

\* predict(row): the loop over self.hypotheses, all predictions in the order
\* of the map.
predict(self, row) ==
    Concat([i \in 1..Len(self.hypotheses) |->
               predict_entry(self, row, self.hypotheses[i])])

\* ------------------------------------------------------- setups and inputs
\* The values of the free-input rows.
Vals == {0, 1}

\* The setups: the five test scenarios "A" to "E", whose train calls are
\* scripted, and the free-input setups: every row over Vals with target
\* column 0 ("T0") or 1 ("T1"), two rows with either target ("TV"), two
\* rows with target_index -1, the default of Context ("TM"), rows with a
\* None on which equals_sum raises ("TN"), two rows with target column 0 of
\* which one satisfies "column 0 = column 1" ("TC"), and one row with either
\* target ("TW").
Scenarios == {"A", "B", "C", "D", "E"}
Free == {"T0", "T1", "TV", "TN", "TM", "TC", "TW"}

\* Context(row, target_index)
Context(row, target_index) == [row |-> row, target_index |-> target_index]

\* The learners under test: those of the scenarios (all of max_depth 1), and
\* for the free-input setups equals_sum, one constant, every small tolerance
\* and max_depth 0 or 2.
InitLearner(name) ==
    CASE name = "A" -> {NewLearner(<<"equals_sum">>, <<>>, 2, 2, 5, 1, <<>>)}
      [] name = "B" -> {NewLearner(<<"equals_sum">>, <<>>, 1, 2, 2, 1, <<>>)}
      [] name = "C" -> {NewLearner(<<"equals_constant">>, <<42>>, 1, 1, 5, 1, <<>>)}
      [] name = "D" -> {NewLearner(<<"equals_sum">>, <<>>, 1, 2, 5, 1, <<>>)}
      [] name = "E" -> {NewLearner(<<"equals_sum", "greater_than", "less_than",
                                     "equals_median">>, <<0, 10>>, 1, 3, 5, 1, <<>>)}
      [] OTHER -> {NewLearner(<<"equals_sum">>, <<1>>, 1, 2, tol, d, <<>>) :
                      tol \in 0..MaxTol, d \in {0, 2}}

\* The train calls of a scenario, in order.
Script(name) ==
    CASE name = "A" -> <<Context(<<3, 5, 8>>, 2), Context(<<2, 4, 6>>, 2),
                         Context(<<10, -1, 9>>, 2)>>
      [] name = "B" -> <<Context(<<1, 2, 3>>, 2), Context(<<3, 4, 7>>, 2),
                         Context(<<5, 5, 999>>, 2), Context(<<2, 2, 999>>, 2)>>
      [] name = "C" -> <<Context(<<42, 0>>, 1)>>
      [] name = "D" -> <<Context(<<2, 3, 5>>, 2)>>
      [] name = "E" -> <<Context(<<2, 3, 5, 5>>, 3), Context(<<1, 9, 10, 10>>, 3),
                         Context(<<6, 1, 7, 7>>, 3)>>
      [] OTHER -> <<>>

\* The examples the n-th train call (counted from 0) may be given.
Inputs(name, n) ==
    CASE name = "T0" -> {Context(<<a, b>>, 0) : a \in Vals, b \in Vals}
      [] name = "T1" -> {Context(<<a, b>>, 1) : a \in Vals, b \in Vals}
      [] name = "TV" -> {Context(<<a, a>>, t) : a \in Vals, t \in {0, 1}}
      [] name = "TN" -> {Context(<<a, 1>>, 1) : a \in {None, 0, 1}}
      [] name = "TM" -> {Context(<<a, 1>>, -1) : a \in Vals}
      [] name = "TC" -> {Context(<<a, 1>>, 0) : a \in Vals}
      [] name = "TW" -> {Context(<<0, 0>>, t) : t \in {0, 1}}
      [] OTHER -> IF n < Len(Script(name)) THEN {Script(name)[n + 1]} ELSE {}

\* The rows predict may be given.
PredictRows(name) ==
    CASE name = "A" -> {<<7, 1, None>>}
      [] name = "B" -> {<<10, 5, None>>}
      [] name = "C" -> {<<42, None>>}
      [] name = "D" -> {<<10, 1, None>>, <<10, 1, 5>>, <<10, 1, 7>>}
      [] name = "E" -> {<<4, 2, 6, None>>}
      [] name = "TW" -> {<<0, 1>>, <<1, 1>>, <<1, None>>, <<None, 1>>}
      [] OTHER -> {<<0, 1>>, <<1, 1>>, <<0, None>>, <<None, 1>>}

\* ------------------------------------------------------------ the machine
VARIABLES
    setup,     \* which learner and inputs this run is about
    learner,   \* the root learner (configuration and hypothesis map)
    calls,     \* the number of train calls made
    op,        \* the last call: "init", "train", "child", "grandchild", "predict"
    ctx,       \* the Context of the last train call on the root
    raised,    \* whether the last train call (on any learner) raised
    prow,      \* the row of the last predict call
    out,       \* the result of the last predict call
    obs,       \* per key: what the train calls since its insertion showed
    dropped    \* the keys some train call removed from the root's map

vars == <<setup, learner, calls, op, ctx, raised, prow, out, obs, dropped>>

\* The keys that hold on a train call: enumerated for it and passing.
Holding(self, row, target_index) ==
    LET cands == enumerate_hypotheses(self, row, target_index)
    IN  {cands[j] : j \in {i \in 1..Len(cands) :
                              PassedOn(self, row, target_index, cands[i])}}

\* The observer's record of a key after a train call: fresh when the call
\* inserted it, else the failing calls since its insertion (nfail) and the
\* failing calls since it last held (run).
Observe(tracked, holding, old, key) ==
    IF key \notin tracked
    THEN [fresh |-> TRUE, nfail |-> 0, run |-> 0]
    ELSE IF key \in holding
    THEN [fresh |-> FALSE, nfail |-> old[key].nfail, run |-> 0]
    ELSE [fresh |-> FALSE, nfail |-> old[key].nfail + 1, run |-> old[key].run + 1]

Init ==
    /\ setup \in Scenarios \cup Free
    /\ learner \in InitLearner(setup)
    /\ calls = 0
    /\ op = "init"
    /\ ctx = Context(<<>>, -1)
    /\ raised = FALSE
    /\ prow = <<>>
    /\ out = <<>>
    /\ obs = <<>>
    /\ dropped = {}

\* The state after a train call with example c and outcome r.
Trained(c, r, tracked, now, holding) ==
    /\ learner' = r.self
    /\ raised' = r.raised
    /\ ctx' = c
    /\ obs' = [k \in tracked \cup now |-> Observe(tracked, holding, obs, k)]
    /\ dropped' = dropped \cup (tracked \ now)
    /\ calls' = calls + 1
    /\ op' = "train"
    /\ prow' = <<>>
    /\ out' = <<>>
    /\ UNCHANGED setup

\* learner.on(Context(row, target_index), gi)
Train ==
    /\ calls < MaxTrain
    /\ \E c \in Inputs(setup, calls) :
          Trained(c, on(learner, c.row, c.target_index),
                  KeysOf(learner.hypotheses),
                  KeysOf(on(learner, c.row, c.target_index).self.hypotheses),
                  Holding(learner, c.row, c.target_index))

\* A mutant of Predict: predict removes from the map the feature and
\* constant rules that do not hold on the predicted row.
PredictPruning ==
    /\ \E row \in PredictRows(setup) :
          /\ prow' = row
          /\ out' = predict(learner, row)
          /\ learner' = [learner EXCEPT !.hypotheses =
                LET stays(h) == h.key[3][1] = "target" \/ PassedAgain(learner, row, h.key)
                IN  SelectSeq(@, stays)]
    /\ op' = "predict"
    /\ UNCHANGED <<setup, calls, ctx, raised, obs, dropped>>

\* learner.predict(row)
Predict ==
    /\ \E row \in PredictRows(setup) :
          /\ prow' = row
          /\ out' = predict(learner, row)
    /\ op' = "predict"
    /\ UNCHANGED <<setup, learner, calls, ctx, raised, obs, dropped>>

Next == Train \/ Predict

Spec == Init /\ [][Next]_vars

\* The state after a train call with outcome r on the child that the i-th
\* entry of the root's map owns.
ChildTrained(i, r) ==
    /\ learner' = [learner EXCEPT !.hypotheses[i].child = <<r.self>>]
    /\ raised' = r.raised
    /\ calls' = calls + 1
    /\ op' = "child"
    /\ prow' = <<>>
    /\ out' = <<>>
    /\ UNCHANGED <<setup, ctx, obs, dropped>>

\* learner.hypotheses[key]["child"].on(Context(row, target_index), gi): the
\* caller trains an owned child itself, with both arguments of on.
TrainChild ==
    /\ calls < MaxTrain
    /\ \E i \in 1..Len(learner.hypotheses) :
          /\ learner.hypotheses[i].child # <<>>
          /\ \E c \in Inputs(setup, calls) :
                ChildTrained(i, on(learner.hypotheses[i].child[1],
                                   c.row, c.target_index))

\* The state after a train call with outcome r on the child that the j-th
\* entry owns in the map of the child that the root's i-th entry owns.
GrandchildTrained(i, j, r) ==
    /\ learner' = [learner EXCEPT !.hypotheses[i].child =
                      <<[@[1] EXCEPT !.hypotheses[j].child = <<r.self>>]>>]
    /\ raised' = r.raised
    /\ calls' = calls + 1
    /\ op' = "grandchild"
    /\ prow' = <<>>
    /\ out' = <<>>
    /\ UNCHANGED <<setup, ctx, obs, dropped>>

\* The same call on a child of a child. The learners under test have
\* max_depth at most 2, so that no learner lies deeper.
TrainGrandchild ==
    /\ calls < MaxTrain
    /\ \E i \in 1..Len(learner.hypotheses) :
          /\ learner.hypotheses[i].child # <<>>
          /\ \E j \in 1..Len(learner.hypotheses[i].child[1].hypotheses) :
                /\ learner.hypotheses[i].child[1].hypotheses[j].child # <<>>
                /\ \E c \in Inputs(setup, calls) :
                      GrandchildTrained(i, j,
                          on(learner.hypotheses[i].child[1].hypotheses[j].child[1],
                             c.row, c.target_index))

\* The learner with its children open to the caller: besides train and
\* predict on the root, train calls on the learners below the root, in the
\* two-row setup, the setup with rows on which equals_sum raises and the
\* one-row setup with either target.
TreeSetups == {"TC", "TN", "TW"}
InitTree == Init /\ setup \in TreeSetups
NextTree == Train \/ Predict \/ TrainChild \/ TrainGrandchild

SpecTree == InitTree /\ [][NextTree]_vars

\* ---------------------------------------------------------------- claims
\* The root's hypothesis map, its keys, the entry of a tracked key.
Map == learner.hypotheses
Tracked == KeysOf(Map)
Entry(key) == Get(Map, key)
Range(seq) == {seq[i] : i \in 1..Len(seq)}

\* What a retained target rule yields in prediction mode on a row.
Yields(key, row) ==
    Range(Yhat(Call(learner.functions[key[1] + 1], LhsValues(row, key[2]), None)))

\* The retained target rules are usable for prediction: what each yields on
\* a row is among the predictions `preds` for that row.
Contribute(row, preds) ==
    \A j \in 1..Len(Map) :
        Map[j].key[3][1] = "target" => Yields(Map[j].key, row) \subseteq Range(preds)

\* C1 as stated: a hypothesis is removed by the train call that ends a run of
\* tolerance + 1 consecutive failing calls, and by no other: failing calls
\* separated by a passing call do not add up to a removal.
C1_ConsecutiveFailures ==
    \A key \in DOMAIN obs :
        (key \notin Tracked) <=> (obs[key].run = learner.tolerance + 1)

\* C1 as amended: a hypothesis is retained, and contributes to predict, while
\* the train calls on which it did not pass since its insertion, consecutive
\* or not, number at most tolerance; the train call that is the
\* (tolerance + 1)-th of them removes it.
C1_TotalFailures ==
    /\ \A key \in DOMAIN obs :
          (key \notin Tracked) <=> (obs[key].nfail = learner.tolerance + 1)
    /\ \A row \in PredictRows(setup) : Contribute(row, predict(learner, row))

\* C1's case: a train call removed a hypothesis whose tolerance + 1 failing
\* calls were separated by a passing call.
C1_Witness ==
    \E key \in DOMAIN obs :
        /\ key \notin Tracked
        /\ obs[key].nfail = learner.tolerance + 1
        /\ obs[key].run < obs[key].nfail

\* C2: the failure_count of every tracked hypothesis is the number of train
\* calls since its insertion on which it did not hold (it failed or was not
\* enumerated): 0 when inserted, one more after each such call, and left as
\* it is, never reset, by a call on which it passes.
C2_FailureCount ==
    \A j \in 1..Len(Map) :
        /\ Map[j].key \in DOMAIN obs
        /\ Map[j].fail = obs[Map[j].key].nfail
        /\ obs[Map[j].key].fresh => Map[j].fail = 0

\* C2's case: a hypothesis that failed before passed on the last train call
\* and kept its count, beside one that was not enumerated and one inserted.
C2_Witness ==
    /\ \E j \in 1..Len(Map) :
          /\ Map[j].fail >= 1
          /\ ~obs[Map[j].key].fresh
          /\ obs[Map[j].key].run = 0
    /\ \E j \in 1..Len(Map) :
          /\ obs[Map[j].key].run >= 1
          /\ Map[j].key \notin
                Range(enumerate_hypotheses(learner, ctx.row, ctx.target_index))
    /\ \E j \in 1..Len(Map) : obs[Map[j].key].fresh

\* The predictions for a row are the contributions of the entries of the map
\* and nothing else: a key that is not in the map contributes nothing.
OnlyTracked(row) ==
    LET parts == [j \in 1..Len(Map) |-> predict_entry(learner, row, Map[j])]
    IN  predict(learner, row) = Concat(parts)

\* C3 as stated: a hypothesis that exceeded tolerance is absent from the map
\* and from predict; when a later train call re-inserts its key, the entry
\* has failure_count 0 and no child.
C3_ReinsertedWithoutChild ==
    \A key \in DOMAIN obs :
        /\ obs[key].nfail > learner.tolerance =>
              /\ key \notin Tracked
              /\ \A row \in PredictRows(setup) : OnlyTracked(row)
        /\ key \in dropped /\ obs[key].fresh =>
              /\ key \in Tracked
              /\ Entry(key).fail = 0
              /\ Entry(key).child = <<>>

\* C3 as amended: a hypothesis that exceeded tolerance is absent from the map
\* and from predict; when a later train call re-inserts its key, the entry
\* has failure_count 0 and not the child it had: it has no child, unless the
\* child refresh of that same call gave it a newly created one (max_depth - 1,
\* parent_key the key, an empty map), which it never does for a target rule
\* or in a learner with max_depth <= 0.
C3_ReinsertedFresh ==
    \A key \in DOMAIN obs :
        /\ obs[key].nfail > learner.tolerance =>
              /\ key \notin Tracked
              /\ \A row \in PredictRows(setup) : OnlyTracked(row)
        /\ key \in dropped /\ obs[key].fresh =>
              /\ key \in Tracked
              /\ Entry(key).fail = 0
              /\ Entry(key).child \in {<<>>, <<NewChild(learner, key)>>}
              /\ key[3][1] = "target" \/ NoChildrenAllowed(learner)
                    => Entry(key).child = <<>>

\* C3's case: a key that was dropped is in the map again, inserted by the
\* last train call, and that call's child refresh gave it a child.
C3_Witness ==
    \E key \in dropped \cap Tracked :
        /\ obs[key].fresh
        /\ Entry(key).fail = 0
        /\ Entry(key).child # <<>>

\* C4: scenario A (equals_sum, min_lhs = max_lhs = 2): the three train calls
\* return normally and predict on [7, 1, None] then returns exactly [8].
C4_ScenarioA ==
    setup = "A" =>
        /\ ~raised
        /\ calls = 3 => predict(learner, <<7, 1, None>>) = <<8>>

\* C4's case: predict was called after the three train calls of scenario A.
C4_Witness ==
    setup = "A" /\ calls = 3 /\ op = "predict" /\ prow = <<7, 1, None>> /\ out = <<8>>

\* C5: scenario B (equals_sum, tolerance 2, default depth): the train calls
\* on the two confirming and the two contradicting rows go through, and
\* predict on [10, 5, None] then contains 15.
C5_ScenarioB ==
    setup = "B" =>
        /\ ~raised
        /\ calls = 4 => 15 \in Range(predict(learner, <<10, 5, None>>))

\* C6: scenario C (equals_constant, constant 42): after the train call on
\* [42, 0] with target column 1, predict on [42, None] contains 42.
C6_ScenarioC ==
    setup = "C" /\ calls = 1 => 42 \in Range(predict(learner, <<42, None>>))

\* C7: the default learner with equals_sum: the train call on [2, 3, 5] goes
\* through and predict on [10, 1, None] then returns exactly [11].
C7_DefaultScenario ==
    setup = "D" =>
        /\ ~raised
        /\ calls = 1 => predict(learner, <<10, 1, None>>) = <<11>>

\* Two rows of the same length that differ at most in column t.
DifferOnlyAt(r1, r2, t) ==
    /\ Len(r1) = Len(r2)
    /\ \A i \in 1..Len(r1) : i - 1 # t => r1[i] = r2[i]

\* C8: after train calls with one target column t, predict returns the same
\* sequence for any two rows that differ only in column t.
C8_TargetIgnored ==
    setup # "TV" /\ calls >= 1 =>
        \A r1 \in PredictRows(setup), r2 \in PredictRows(setup) :
            DifferOnlyAt(r1, r2, ctx.target_index)
                => predict(learner, r1) = predict(learner, r2)

RECURSIVE Learners(_)
\* The learners of a tree: the learner and those below its children.
Learners(l) ==
    {l} \cup UNION {Learners(l.hypotheses[j].child[1]) :
                       j \in {i \in 1..Len(l.hypotheses) :
                                 l.hypotheses[i].child # <<>>}}

RECURSIVE ChainLen(_)
\* The longest chain of nested child learners below a learner.
ChainLen(l) ==
    LET below == {ChainLen(l.hypotheses[j].child[1]) :
                     j \in {i \in 1..Len(l.hypotheses) :
                               l.hypotheses[i].child # <<>>}}
    IN  IF below = {} THEN 0
        ELSE 1 + CHOOSE n \in below : \A m \in below : m <= n

\* C9: in every learner of the tree, a retained hypothesis with a target RHS
\* has no child.
C9_TargetTerminal ==
    \A l \in Learners(learner) :
        \A j \in 1..Len(l.hypotheses) :
            l.hypotheses[j].key[3][1] = "target" => l.hypotheses[j].child = <<>>

\* C9's case: the last train call, on a row on which a retained target rule
\* holds, reached the child refresh and gave another hypothesis its child.
C9_Witness ==
    /\ op = "train"
    /\ \E j \in 1..Len(Map) :
          /\ Map[j].key[3][1] = "target"
          /\ Map[j].key \in Holding(learner, ctx.row, ctx.target_index)
    /\ \E j \in 1..Len(Map) : Map[j].child # <<>>

\* C10: a child of a learner with max_depth d has max_depth d - 1, a learner
\* with max_depth <= 0 has no child, and the chain of nested children below
\* the root is never longer than the root's max_depth.
C10_DepthBound ==
    /\ \A l \in Learners(learner) :
          \A j \in 1..Len(l.hypotheses) :
              l.hypotheses[j].child # <<>> =>
                  /\ l.max_depth >= 1
                  /\ l.hypotheses[j].child[1].max_depth = l.max_depth - 1
    /\ ChainLen(learner) <= learner.max_depth

\* C10's case: a root with max_depth 0 was trained on a row on which two of
\* its retained feature or constant hypotheses hold, and none has a child.
C10_Witness ==
    /\ op = "train"
    /\ learner.max_depth = 0
    /\ \E i \in 1..Len(Map), j \in 1..Len(Map) :
          /\ i # j
          /\ Nests(learner, ctx.row, Map[i].key)
          /\ Nests(learner, ctx.row, Map[j].key)
          /\ Map[i].child = <<>> /\ Map[j].child = <<>>

\* C11: in every learner of the tree that was created under a key K (its
\* parent_key is K), the hypothesis with the identical key K owns no child.
C11_NoSelfNesting ==
    \A l \in Learners(learner) :
        l.parent_key # <<>> =>
            \A j \in 1..Len(l.hypotheses) :
                l.hypotheses[j].key = l.parent_key => l.hypotheses[j].child = <<>>

\* C11's case: a child that may still nest (max_depth >= 1) was trained and
\* the relation of its parent_key held on every row it was trained on since
\* it tracks that key (failure_count 0); the key has no child, while the
\* child refresh gave another key of the child a child.
C11_Witness ==
    /\ op = "child"
    /\ \E i \in 1..Len(Map) :
          /\ Map[i].child # <<>>
          /\ Map[i].child[1].max_depth >= 1
          /\ Map[i].child[1].parent_key = Map[i].key
          /\ Map[i].key \in KeysOf(Map[i].child[1].hypotheses)
          /\ Get(Map[i].child[1].hypotheses, Map[i].key).fail = 0
          /\ Get(Map[i].child[1].hypotheses, Map[i].key).child = <<>>
          /\ \E j \in 1..Len(Map[i].child[1].hypotheses) :
                Map[i].child[1].hypotheses[j].child # <<>>

\* The call on makes for an enumerated key on the last train call's row.
TrainCall(key) ==
    Call(learner.functions[key[1] + 1], LhsValues(ctx.row, key[2]),
         CASE key[3][1] = "target" -> At(ctx.row, ctx.target_index)
           [] key[3][1] = "feature" -> At(ctx.row, key[3][2])
           [] OTHER -> key[3][2])

\* The call predict makes for a retained key on the last predicted row.
PredictCall(key) ==
    Call(learner.functions[key[1] + 1], LhsValues(prow, key[2]),
         CASE key[3][1] = "target" -> None
           [] key[3][1] = "feature" -> At(prow, key[3][2])
           [] OTHER -> key[3][2])

\* C12: an exception of a relation function stays inside train and predict.
\* After a train call, a key whose call raised is treated as not holding (not
\* inserted; if tracked, one more failure and no child from this call), each
\* key whose call returned a true value is in the map as holding, and an
\* exception leaves the call only from the train call on a child, never
\* from a relation function. After a predict call, the output is that of
\* the entries whose call did not raise, in order.
C12_ExceptionsContained ==
    /\ op = "train" =>
          /\ \A key \in Range(enumerate_hypotheses(learner, ctx.row, ctx.target_index)) :
                /\ TrainCall(key).tag = "exc" /\ key \in Tracked =>
                      /\ ~obs[key].fresh
                      /\ obs[key].run >= 1
                      /\ Entry(key).fail = obs[key].nfail
                /\ TrainCall(key).tag = "bool" /\ TrainCall(key).b =>
                      /\ key \in Tracked
                      /\ obs[key].run = 0
          /\ raised => \E j \in 1..Len(Map) :
                          /\ Map[j].child # <<>>
                          /\ PassedAgain(learner, ctx.row, Map[j].key)
    /\ op = "predict" =>
          out = Concat([j \in 1..Len(Map) |->
                          IF PredictCall(Map[j].key).tag = "exc" THEN <<>>
                          ELSE predict_entry(learner, prow, Map[j])])

\* C12's case: on the last train call equals_sum raised for a tracked key,
\* which was counted as a failure and kept, while another tracked key was
\* compared as usual and held, and the call returned normally.
C12_Witness ==
    /\ op = "train"
    /\ ~raised
    /\ \E k1 \in Tracked, k2 \in Tracked :
          /\ TrainCall(k1).tag = "exc"
          /\ obs[k1].run >= 1
          /\ TrainCall(k2).tag = "bool"
          /\ TrainCall(k2).b
          /\ ~obs[k2].fresh
          /\ obs[k2].run = 0

\* The column that target_index names in the row of the last train call.
TargetColumn ==
    IF ctx.target_index >= 0 THEN ctx.target_index
    ELSE Len(ctx.row) + ctx.target_index

\* C13: after a train call, whatever valid target_index it and the calls
\* before it were given, every key in the map with a feature RHS names a
\* column other than the target column of that call.
C13_FeatureNotTarget ==
    calls >= 1 =>
        \A j \in 1..Len(Map) :
            Map[j].key[3][1] = "feature" => Map[j].key[3][2] # TargetColumn

\* C14: scenario E (equals_sum, greater_than, less_than, equals_median,
\* constants 0 and 10, min_lhs 1, max_lhs 3): after the three train calls
\* with target column 3, the prediction for [4, 2, 6, None] is not empty and
\* each of its values is 6, 7 or 10.
C14_MixedScenario ==
    setup = "E" /\ calls = 3 =>
        /\ predict(learner, <<4, 2, 6, None>>) # <<>>
        /\ Range(predict(learner, <<4, 2, 6, None>>)) \subseteq {6, 7, 10}

\* C15: a train call on a learner with max_depth >= 1 returns normally, and
\* afterwards every retained feature or constant hypothesis other than the
\* parent_key that holds on the row owns a child (max_depth - 1, parent_key
\* the key) that this call trained on the same row and target_index, so
\* that the child tracks every key that holds on the row.
C15_ChildrenTrained ==
    op = "train" /\ learner.max_depth >= 1 =>
        /\ ~raised
        /\ \A j \in 1..Len(Map) :
              Nests(learner, ctx.row, Map[j].key) =>
                  /\ Map[j].child # <<>>
                  /\ Map[j].child[1].max_depth = learner.max_depth - 1
                  /\ Map[j].child[1].parent_key = Map[j].key
                  /\ Holding(Map[j].child[1], ctx.row, ctx.target_index)
                        \subseteq KeysOf(Map[j].child[1].hypotheses)

\* C16: a train call on the root keeps the child of every child-owning
\* hypothesis that it retains, and when the relation of such a hypothesis
\* does not hold on the row of the call, the child and all below it (keys,
\* failure counts, nested children) are after the call what they were.
C16_ChildKept ==
    [][op' = "train" =>
          \A j \in 1..Len(learner.hypotheses) :
              /\ learner.hypotheses[j].child # <<>>
              /\ learner.hypotheses[j].key \in KeysOf(learner'.hypotheses)
              => /\ Get(learner'.hypotheses, learner.hypotheses[j].key).child # <<>>
                 /\ ~PassedAgain(learner, ctx'.row, learner.hypotheses[j].key)
                       => Get(learner'.hypotheses, learner.hypotheses[j].key).child
                             = learner.hypotheses[j].child]_vars

\* C16's case: the last train call was on a row on which a hypothesis that
\* owns a trained child does not hold; it counted a failure and is retained
\* with that child.
C16_Witness ==
    /\ op = "train"
    /\ \E j \in 1..Len(Map) :
          /\ Map[j].child # <<>>
          /\ Map[j].child[1].hypotheses # <<>>
          /\ obs[Map[j].key].run >= 1
          /\ ~PassedAgain(learner, ctx.row, Map[j].key)

\* The predicted row leaves only the target column unknown.
TargetOnlyUnknown ==
    \A i \in 1..Len(prow) : prow[i] = None => i - 1 = TargetColumn

\* predict's "passed" for a retained feature or constant rule on the
\* predicted row: the truthiness of what the call returned, False when it
\* raised.
HoldsOnPredicted(key) == Truthy(PredictCall(key))

\* The relation function takes that call as a comparison: the RHS value
\* predict resolved for the rule on the predicted row is not None.
ComparisonMode(key) ==
    /\ key[3][1] # "target"
    /\ (IF key[3][1] = "feature" THEN At(prow, key[3][2]) ELSE key[3][2]) # None

\* C17: on a row that leaves only the target column unknown, the output of
\* predict is, entry by entry in map order, the value of each target rule
\* and, for a feature or constant rule, the predictions of its child only
\* when the rule holds in comparison mode on the predicted row; a rule that
\* does not hold contributes nothing, whatever its child would predict.
C17_ChildGated ==
    op = "predict" /\ TargetOnlyUnknown =>
        out = Concat([j \in 1..Len(Map) |->
                        IF Map[j].key[3][1] = "target"
                        THEN Yhat(PredictCall(Map[j].key))
                        ELSE IF /\ ComparisonMode(Map[j].key)
                                /\ HoldsOnPredicted(Map[j].key)
                                /\ Map[j].child # <<>>
                        THEN predict(Map[j].child[1], prow)
                        ELSE <<>>])

\* C18: a predict call leaves the root's hypothesis map and that of every
\* nested child as they were (keys, order, failure counts, children), and
\* with them everything later train and predict calls depend on.
C18_PredictReadOnly ==
    [][op' = "predict" =>
          /\ learner' = learner
          /\ UNCHANGED <<calls, ctx, raised, obs, dropped>>]_vars

\* C18's case: predict returned values from a map that holds a rule with a
\* child, a rule with failures and a rule that does not hold on the row.
C18_Witness ==
    /\ op = "predict"
    /\ out # <<>>
    /\ \E j \in 1..Len(Map) : Map[j].child # <<>>
    /\ \E j \in 1..Len(Map) : Map[j].fail >= 1
    /\ \E j \in 1..Len(Map) :
          /\ Map[j].key[3][1] # "target"
          /\ ~PassedAgain(learner, prow, Map[j].key)

\* C19: in every learner of the tree, the failure_count of every retained
\* hypothesis is at least 0 and at most the learner's tolerance.
C19_FailureBounded ==
    \A l \in Learners(learner) :
        \A j \in 1..Len(l.hypotheses) :
            /\ 0 <= l.hypotheses[j].fail
            /\ l.hypotheses[j].fail <= l.tolerance

\* C19's case: with tolerance >= 1, the root retains a hypothesis that has
\* used up its tolerance, and so does a child that the root owns.
C19_Witness ==
    /\ learner.tolerance >= 1
    /\ \E j \in 1..Len(Map) : Map[j].fail = learner.tolerance
    /\ \E i \in 1..Len(Map) :
          /\ Map[i].child # <<>>
          /\ \E m \in 1..Len(Map[i].child[1].hypotheses) :
                Map[i].child[1].hypotheses[m].fail = Map[i].child[1].tolerance

====
